---------------------------- MODULE Spec2Model ----------------------------
(***************************************************************************)
(* ALICE-RTOS: the rate-monotonic scheduler (src/src/scheduler.rs), its    *)
(* task descriptors (src/src/task.rs), the lock-free SPSC ring             *)
(* (src/src/spsc.rs), the system timer (src/src/timer.rs) and the kernel   *)
(* (src/src/kernel.rs), as state machines.                                 *)
(*                                                                         *)
(* Option<usize> is modelled as an integer, None being NONE (-1).          *)
(* The descriptor fields `name` and `scratch_size` are never read by the   *)
(* scheduler and are left out of the record.  The task table is kept as    *)
(* its registered prefix tasks[0 .. task_count-1]: the slots from          *)
(* task_count on hold Task::empty() from Scheduler::new on, and the only   *)
(* write to such a slot is register's, at index task_count.  Time and the  *)
(* u32 counters are kept far below their widths by the guards of the       *)
(* environment (MaxTime, MaxExec), so no addition of the scheduler wraps.  *)
(***************************************************************************)
EXTENDS Integers, Sequences, FiniteSets, TLC

VARIABLES
    tasks,             \* Scheduler.tasks[..task_count]: [0..task_count-1 -> Task]
    task_count,        \* Scheduler.task_count
    current_task,      \* Scheduler.current_task (NONE = idle)
    tick_us,           \* Scheduler.tick_us
    context_switches,  \* Scheduler.context_switches
    last,              \* the last scheduler call: [op, ret]; ret is the index
                       \* returned (register, tick) or the index whose descriptor
                       \* the call wrote (suspend, resume), NONE when there is none
    buffer,            \* SpscRing.buffer: [0..N-1 -> u32]
    write_idx,         \* SpscRing.write_idx
    read_idx,          \* SpscRing.read_idx
    prod,              \* the producer's position in push and its locals
    cons,              \* the consumer's position in pop and its locals
    pushed,            \* values accepted by successful pushes, in order
    popped,            \* values returned by successful pops, in order
    toggles,           \* suspend and resume calls made so far (environment)
    obs,               \* the observer's position in len / is_empty / is_full,
                       \* its local `write` and the value it last returned
    seen,              \* the ring's true lengths since the observer's call began
    ticks_us,          \* SysTimer.ticks_us
    overflows,         \* SysTimer.overflows
    total_ticks,       \* Kernel.total_ticks
    running,           \* Kernel.running
    run,               \* the position of run_for in its loop and its locals
    delta_sum,         \* the sum of the delta_us passed to Kernel::tick so far
    drain,             \* the catch-up a caller is running by repeating
                       \* tick(0): [on, called, tasks0]; called once it has
                       \* made a call, tasks0 the descriptors it started from
    klast              \* the last call on the kernel or its timer, or of
                       \* execute_task: [op, arg, ret, invoked, panicked]; invoked
                       \* is the sequence of task indices whose function it ran

schedVars == <<tasks, task_count, current_task, tick_us, context_switches, last>>
ringVars == <<buffer, write_idx, read_idx, prod, cons, pushed, popped>>
obsVars == <<obs, seen>>
timerVars == <<ticks_us, overflows>>
kernelVars == <<total_ticks, running, run, klast>>
ghostVars == <<delta_sum, drain>>
vars == <<tasks, task_count, current_task, tick_us, context_switches, last,
          buffer, write_idx, read_idx, prod, cons, pushed, popped, toggles,
          obs, seen, ticks_us, overflows, total_ticks, running, run, klast,
          delta_sum, drain>>

\* what a scheduler driver leaves alone besides the ring
otherVars == <<obsVars, timerVars, kernelVars, ghostVars>>
\* what a step of push or pop leaves alone besides the ring and the observer
ringEnv == <<schedVars, toggles, timerVars, kernelVars, ghostVars>>

-------------------------------------------------------------------------------------------------------------------------------------------------
(* Program constants *)

MAX_TASKS == 16

CRITICAL == 0

HIGH == 1

IDLE == 255

\* Option::None of an Option<usize>
NONE == -1

(* Bounds of the explored environments *)

\* Spec and SpecSuspend register at most this many tasks
MaxReg == 2

\* delta_us offered to tick in Spec is 0..MaxDelta
MaxDelta == 2

\* Spec does not call tick once tick_us would pass MaxTime
MaxTime == 2

\* tick is not called once some task has been dispatched MaxExec times
MaxExec == 2

\* SpecSuspend and SpecTable do not call tick once tick_us would pass it
MaxSuspTime == 1

\* SpecSuspend and SpecTable make at most this many suspend and resume calls
MaxToggles == 2

\* SpecTable, and SpecDrain before its catch-up, do not call tick once some
\* task has been dispatched this often
MaxTableExec == 1

Priorities == {CRITICAL, HIGH, IDLE}

\* periods and WCETs offered to Task::new in Spec
Periods == {0, 1, 2}

Wcets == {1}

Deltas == 0..MaxDelta

SuspDeltas == {0, 1}

-----
(* task.rs *)

TaskEmpty ==
    [func |-> FALSE, priority |-> IDLE, period_us |-> 0, wcet_us |-> 0,
     state |-> "Inactive", next_activation |-> 0, exec_count |-> 0,
     deadline_misses |-> 0]

TaskNew(priority, period_us, wcet_us) ==
    [func |-> TRUE, priority |-> priority, period_us |-> period_us,
     wcet_us |-> wcet_us, state |-> "Ready", next_activation |-> 0,
     exec_count |-> 0, deadline_misses |-> 0]

is_active(t) == t.state # "Inactive"

\* Descriptors the environment hands to register
Templates ==
    {TaskNew(p, T, c) : p \in Priorities, T \in Periods, c \in Wcets}
        \cup {TaskEmpty}

\* Descriptors SpecSuspend registers
SuspTemplates ==
    {TaskNew(CRITICAL, 2, 1), TaskNew(HIGH, 1, 1), TaskNew(IDLE, 1, 1)}

\* Descriptors SpecTable registers: any of these in the first MaxReg slots,
\* the first of them in every later slot
TableFiller == TaskNew(HIGH, 1, 1)

TableTemplates == {TableFiller, TaskEmpty}

\* SpecRms registers at most MaxRmsReg descriptors
MaxRmsReg == 10

\* WCETs, in microseconds of a 1000 us period, on both sides of every bound
RmsWcets ==
    {693, 694, 724, 725, 729, 730, 735, 736, 743, 744, 757, 758, 780, 781,
     828, 829, 1000, 1001}

\* WCETs around the first u32 that `as f32` rounds, for a period of 2^24 us
RmsLongWcets == {2 ^ 24 - 1, 2 ^ 24, 2 ^ 24 + 1, 2 ^ 24 + 3}

\* The first descriptor SpecRms registers carries the utilisation
RmsFirst ==
    {TaskNew(HIGH, 1000, w) : w \in RmsWcets}
        \cup {TaskNew(HIGH, 2 ^ 24, w) : w \in RmsLongWcets}

\* every later one has period 0
RmsFiller == TaskNew(IDLE, 0, 1)

---------------------------------------------------------------------------
(* scheduler.rs *)

SchedInit ==
    /\ tasks = [i \in {} |-> TaskEmpty]
    /\ task_count = 0
    /\ current_task = NONE
    /\ tick_us = 0
    /\ context_switches = 0
    /\ last = [op |-> "new", ret |-> NONE]

TableFullOffByOne(count) == count > MAX_TASKS

TableFull(count) == count >= MAX_TASKS

StoreTaskKeepActivation(ts, idx, task, now) == (idx :> task) @@ ts

StoreTask(ts, idx, task, now) ==
    (idx :> [task EXCEPT !.next_activation = now]) @@ ts

Register(task) ==
    /\ IF TableFull(task_count)
       THEN /\ UNCHANGED <<tasks, task_count>>
            /\ last' = [op |-> "register", ret |-> NONE]
       ELSE /\ tasks' = StoreTask(tasks, task_count, task, tick_us)
            /\ task_count' = task_count + 1
            /\ last' = [op |-> "register", ret |-> task_count]
    /\ UNCHANGED <<current_task, tick_us, context_switches>>
    /\ UNCHANGED ringVars

IsDueEarly(t, now) == t.state = "Sleeping" /\ now + 1 >= t.next_activation

IsDue(t, now) == t.state = "Sleeping" /\ now >= t.next_activation

RECURSIVE MarkReady(_, _, _, _)
MarkReady(ts, i, n, now) ==
    IF i >= n THEN ts
    ELSE MarkReady(IF IsDue(ts[i], now)
                   THEN [ts EXCEPT ![i].state = "Ready"] ELSE ts,
                   i + 1, n, now)

OutranksOrEqual(priority, best_priority) == priority <= best_priority

Outranks(priority, best_priority) == priority < best_priority

RECURSIVE FindLoop(_, _, _, _, _)
FindLoop(ts, i, n, best_idx, best_priority) ==
    IF i >= n THEN best_idx
    ELSE IF ts[i].state = "Ready" /\ Outranks(ts[i].priority, best_priority)
         THEN FindLoop(ts, i + 1, n, i, ts[i].priority)
         ELSE FindLoop(ts, i + 1, n, best_idx, best_priority)

find_highest_priority_ready(ts, n) == FindLoop(ts, 0, n, NONE, IDLE)

DeadlineMissedOrDue(t, now) == now >= t.next_activation + t.period_us

DeadlineMissed(t, now) == now > t.next_activation + t.period_us

DispatchFromNow(t, now) ==
    [t EXCEPT !.deadline_misses = IF DeadlineMissed(t, now) THEN @ + 1 ELSE @,
              !.exec_count = @ + 1,
              !.next_activation = now + t.period_us,
              !.state = "Sleeping"]

DispatchSkipBacklog(t, now) ==
    [t EXCEPT !.deadline_misses = IF DeadlineMissed(t, now) THEN @ + 1 ELSE @,
              !.exec_count = @ + 1,
              !.next_activation =
                  IF t.period_us = 0 THEN @
                  ELSE @ + t.period_us * (((now - @) \div t.period_us) + 1),
              !.state = "Sleeping"]

Dispatch(t, now) ==
    [t EXCEPT !.deadline_misses = IF DeadlineMissed(t, now) THEN @ + 1 ELSE @,
              !.exec_count = @ + 1,
              !.next_activation = @ + t.period_us,
              !.state = "Sleeping"]

SwitchCountAlways(cur, idx, cs) == cs + 1

SwitchCount(cur, idx, cs) == IF cur # idx THEN cs + 1 ELSE cs

TickDispatchAll(delta_us) ==
    LET now == tick_us + delta_us
        ts1 == MarkReady(tasks, 0, task_count, now)
        next == find_highest_priority_ready(ts1, task_count)
    IN  /\ tick_us' = now
        /\ IF next # NONE
           THEN /\ context_switches' = SwitchCount(current_task, next, context_switches)
                /\ current_task' = next
                /\ tasks' = [j \in DOMAIN ts1 |->
                                IF ts1[j].state = "Ready"
                                THEN Dispatch(ts1[j], now) ELSE ts1[j]]
           ELSE /\ current_task' = NONE
                /\ tasks' = ts1
                /\ UNCHANGED context_switches
        /\ last' = [op |-> "tick", ret |-> next]
        /\ UNCHANGED task_count
        /\ UNCHANGED ringVars

Tick(delta_us) ==
    LET now == tick_us + delta_us
        ts1 == MarkReady(tasks, 0, task_count, now)
        next == find_highest_priority_ready(ts1, task_count)
    IN  /\ tick_us' = now
        /\ IF next # NONE
           THEN /\ context_switches' = SwitchCount(current_task, next, context_switches)
                /\ current_task' = next
                /\ tasks' = [ts1 EXCEPT ![next] = Dispatch(ts1[next], now)]
           ELSE /\ current_task' = NONE
                /\ tasks' = ts1
                /\ UNCHANGED context_switches
        /\ last' = [op |-> "tick", ret |-> next]
        /\ UNCHANGED task_count
        /\ UNCHANGED ringVars

Suspend(idx) ==
    /\ IF idx < task_count
       THEN tasks' = [tasks EXCEPT ![idx].state = "Suspended"]
       ELSE UNCHANGED tasks
    /\ last' = [op |-> "suspend", ret |-> IF idx < task_count THEN idx ELSE NONE]
    /\ UNCHANGED <<task_count, current_task, tick_us, context_switches>>
    /\ UNCHANGED ringVars

\* Scheduler::now_us
scheduler_now_us == tick_us

ResumeApplies(idx) == idx < task_count /\ tasks[idx].state = "Suspended"

Resume(idx) ==
    /\ IF ResumeApplies(idx)
       THEN tasks' = [tasks EXCEPT ![idx].state = "Ready",
                                   ![idx].next_activation = tick_us]
       ELSE UNCHANGED tasks
    /\ last' = [op |-> "resume", ret |-> IF ResumeApplies(idx) THEN idx ELSE NONE]
    /\ UNCHANGED <<task_count, current_task, tick_us, context_switches>>
    /\ UNCHANGED ringVars

active_task_count ==
    Cardinality({i \in 0..(task_count - 1) : is_active(tasks[i])})

\* `x as f32` for a u32 x: f32 keeps 24 significant bits, so x is rounded to
\* the nearest multiple of F32Quantum(x), ties to the even multiple.
F32Mantissa == 2 ^ 24

RECURSIVE F32Quantum(_)
F32Quantum(x) == IF x < F32Mantissa THEN 1 ELSE 2 * F32Quantum(x \div 2)

AsF32(x) ==
    LET q == F32Quantum(x)
        down == x - (x % q)
        r == 2 * (x % q)
    IN  IF r < q THEN down
        ELSE IF r > q THEN down + q
        ELSE IF (down \div q) % 2 = 0 THEN down ELSE down + q

\* The f32 utilisation is kept as a fraction: total_utilization is the
\* numerator of the sum over the denominator PeriodProduct, both built from
\* the converted operands.  The quotient and the sum are exact in this
\* fraction while every f32 operation rounds by a relative 2^-24; with the
\* descriptors offered by the environments below either only one task has a
\* non-zero utilisation, and then the f32 quotient and the f32 bound are the
\* roundings of the two numbers compared here, or the sum differs from
\* every bound by more than 1/6000, so the comparison below gives the
\* answer the f32 comparison gives.
RECURSIVE PeriodProduct(_, _, _)
PeriodProduct(ts, i, n) ==
    IF i >= n THEN 1
    ELSE (IF is_active(ts[i]) /\ ts[i].period_us # 0
          THEN AsF32(ts[i].period_us) ELSE 1)
         * PeriodProduct(ts, i + 1, n)

\* Task::utilization over the denominator den (a multiple of the period)
utilization(t, den) ==
    IF t.period_us = 0 THEN 0
    ELSE AsF32(t.wcet_us) * (den \div AsF32(t.period_us))

RECURSIVE UtilLoop(_, _, _, _)
UtilLoop(ts, i, n, den) ==
    IF i >= n THEN 0
    ELSE (IF is_active(ts[i]) THEN utilization(ts[i], den) ELSE 0)
         + UtilLoop(ts, i + 1, n, den)

total_utilization(den) == UtilLoop(tasks, 0, task_count, den)

\* BOUNDS in thousandths; BOUNDS[n + 1] is the table's entry n
BOUNDS == <<1000, 1000, 828, 780, 757, 743, 735, 729, 724, 693>>

liu_layland_bound(n) ==
    IF n = 0 THEN 1000 ELSE BOUNDS[(IF n < 9 THEN n ELSE 9) + 1]

\* num / den <= b / 1000, without forming b * den
LeqThousandths(num, den, b) ==
    num <= b * (den \div 1000) + (b * (den % 1000)) \div 1000

is_schedulable ==
    LET n == active_task_count
        den == PeriodProduct(tasks, 0, task_count)
    IN  IF n = 0 THEN TRUE
        ELSE LeqThousandths(total_utilization(den), den, liu_layland_bound(n))

\* the descriptor in slot idx < MAX_TASKS of the table ts with n registered
\* tasks: the slots from n on hold Task::empty()
SlotIn(ts, n, idx) == IF idx < n THEN ts[idx] ELSE TaskEmpty

SlotAt(idx) == SlotIn(tasks, task_count, idx)

\* self.tasks[idx] indexes an array of MAX_TASKS descriptors: the bounds
\* check of the index panics from MAX_TASKS on
IndexPanics(idx) == idx >= MAX_TASKS

\* the task functions execute_task(idx) runs, in order
InvokedIn(ts, n, idx) ==
    IF IndexPanics(idx) THEN <<>>
    ELSE IF SlotIn(ts, n, idx).func THEN <<idx>> ELSE <<>>

Invoked(idx) == InvokedIn(tasks, task_count, idx)

ExecuteTask(idx) ==
    /\ klast' = [op |-> "execute_task", arg |-> idx, ret |-> NONE,
                 invoked |-> Invoked(idx), panicked |-> IndexPanics(idx)]
    /\ UNCHANGED <<schedVars, ringVars, toggles, ghostVars, obsVars, timerVars>>
    /\ UNCHANGED <<total_ticks, running, run>>

\* is_schedulable, called by the environment: a read of the scheduler
IsSchedulableCall ==
    /\ last' = [op |-> "is_schedulable", ret |-> IF is_schedulable THEN 1 ELSE 0]
    /\ UNCHANGED <<tasks, task_count, current_task, tick_us, context_switches>>
    /\ UNCHANGED ringVars

---------------------------------------------------------------------------
(* spsc.rs: push and pop as the steps of a producer and of a consumer.     *)
(* Each load, slot access and index store is one step; the Acquire loads   *)
(* and Release stores order the slot accesses around them, so the steps    *)
(* of one side take effect in program order.                               *)

\* the ring's const parameter N
N == 3

\* values offered to push are 1..MaxVal
MaxVal == 2

\* the producer starts no push once MaxPush values have been accepted
MaxPush == 5

\* with an observer, the producer takes no step once MaxObsPush values
\* have been accepted
MaxObsPush == 3

Values == 1..MaxVal

RingInit ==
    /\ buffer = [i \in 0..(N - 1) |-> 0]
    /\ write_idx = 0
    /\ read_idx = 0
    /\ prod = [pc |-> "idle", write |-> 0, read |-> 0, value |-> 0]
    /\ cons = [pc |-> "idle", read |-> 0, write |-> 0, value |-> 0]
    /\ pushed = <<>>
    /\ popped = <<>>

NextIdxSkip(i) == (i + 2) % N

NextIdx(i) == (i + 1) % N

RingFullNoWrap(write, read) == write + 1 = read

RingFull(write, read) == NextIdx(write) = read

RingEmptyStale(read, write) == read > write

RingEmpty(read, write) == read = write

\* push: let write = self.write_idx.load(Relaxed)
PushLoadWrite(value) ==
    /\ prod.pc = "idle"
    /\ prod' = [pc |-> "load_read", write |-> write_idx, read |-> 0,
                value |-> value]
    /\ UNCHANGED <<buffer, write_idx, read_idx, cons, pushed, popped>>
    /\ UNCHANGED ringEnv

\* push: let read = self.read_idx.load(Acquire)
PushLoadRead ==
    /\ prod.pc = "load_read"
    /\ prod' = [prod EXCEPT !.pc = "check", !.read = read_idx]
    /\ UNCHANGED <<buffer, write_idx, read_idx, cons, pushed, popped>>
    /\ UNCHANGED ringEnv

\* push: if next_write == read { return false }
PushFull ==
    /\ prod.pc = "check"
    /\ RingFull(prod.write, prod.read)
    /\ prod' = [pc |-> "idle", write |-> 0, read |-> 0, value |-> 0]
    /\ UNCHANGED <<buffer, write_idx, read_idx, cons, pushed, popped>>
    /\ UNCHANGED ringEnv

\* push: self.buffer[write] = value
PushWriteSlot ==
    /\ prod.pc = "check"
    /\ ~RingFull(prod.write, prod.read)
    /\ buffer' = [buffer EXCEPT ![prod.write] = prod.value]
    /\ prod' = [prod EXCEPT !.pc = "store"]
    /\ UNCHANGED <<write_idx, read_idx, cons, pushed, popped>>
    /\ UNCHANGED ringEnv

\* push: self.write_idx.store(next_write, Release); true
PushStoreIdx ==
    /\ prod.pc = "store"
    /\ write_idx' = NextIdx(prod.write)
    /\ pushed' = Append(pushed, prod.value)
    /\ prod' = [pc |-> "idle", write |-> 0, read |-> 0, value |-> 0]
    /\ UNCHANGED <<buffer, read_idx, cons, popped>>
    /\ UNCHANGED ringEnv

\* pop: let read = self.read_idx.load(Relaxed)
PopLoadRead ==
    /\ cons.pc = "idle"
    /\ cons' = [pc |-> "load_write", read |-> read_idx, write |-> 0,
                value |-> 0]
    /\ UNCHANGED <<buffer, write_idx, read_idx, prod, pushed, popped>>
    /\ UNCHANGED ringEnv

\* pop: let write = self.write_idx.load(Acquire)
PopLoadWrite ==
    /\ cons.pc = "load_write"
    /\ cons' = [cons EXCEPT !.pc = "check", !.write = write_idx]
    /\ UNCHANGED <<buffer, write_idx, read_idx, prod, pushed, popped>>
    /\ UNCHANGED ringEnv

\* pop: if read == write { return None }
PopEmpty ==
    /\ cons.pc = "check"
    /\ RingEmpty(cons.read, cons.write)
    /\ cons' = [pc |-> "idle", read |-> 0, write |-> 0, value |-> 0]
    /\ UNCHANGED <<buffer, write_idx, read_idx, prod, pushed, popped>>
    /\ UNCHANGED ringEnv

\* pop: let value = self.buffer[read]
PopReadSlot ==
    /\ cons.pc = "check"
    /\ ~RingEmpty(cons.read, cons.write)
    /\ cons' = [cons EXCEPT !.pc = "store", !.value = buffer[cons.read]]
    /\ UNCHANGED <<buffer, write_idx, read_idx, prod, pushed, popped>>
    /\ UNCHANGED ringEnv

\* pop: self.read_idx.store(next_read, Release); Some(value)
PopStoreIdx ==
    /\ cons.pc = "store"
    /\ read_idx' = NextIdx(cons.read)
    /\ popped' = Append(popped, cons.value)
    /\ cons' = [pc |-> "idle", read |-> 0, write |-> 0, value |-> 0]
    /\ UNCHANGED <<buffer, write_idx, prod, pushed>>
    /\ UNCHANGED ringEnv

\* clear: both index stores, made by the one owner of the ring (&mut self)
Clear ==
    /\ read_idx' = 0
    /\ write_idx' = 0
    /\ UNCHANGED <<buffer, prod, cons, pushed, popped>>
    /\ UNCHANGED ringEnv

lenOffByOne(write, read) ==
    IF write >= read THEN write - read ELSE N - 1 - read + write

\* len, from the two index values it loaded
len(write, read) ==
    IF write >= read THEN write - read ELSE N - read + write

\* is_empty, from the two index values it loaded
is_empty(write, read) == write = read

\* is_full, from the two index values it loaded
is_full(write, read) == (write + 1) % N = read

capacity == N - 1

\* The observer calls len, is_empty or is_full on a shared reference: the
\* call loads write_idx, then read_idx, and returns.
ObsOps == {"len", "is_empty", "is_full"}

ObsInit ==
    /\ obs = [pc |-> "idle", op |-> "none", write |-> 0, ret |-> 0]
    /\ seen = {}

\* let write = self.write_idx.load(Relaxed)
ObsLoadWrite(op) ==
    /\ obs.pc = "idle"
    /\ obs' = [pc |-> "load_read", op |-> op, write |-> write_idx, ret |-> 0]
    /\ seen' = {len(write_idx, read_idx)}
    /\ UNCHANGED <<ringVars, ringEnv>>

ObsResult(op, write, read) ==
    CASE op = "len" -> len(write, read)
      [] op = "is_empty" -> is_empty(write, read)
      [] op = "is_full" -> is_full(write, read)

\* let read = self.read_idx.load(Relaxed), and the return
ObsLoadRead ==
    /\ obs.pc = "load_read"
    /\ obs' = [pc |-> "idle", op |-> obs.op, write |-> 0,
               ret |-> ObsResult(obs.op, obs.write, read_idx)]
    /\ UNCHANGED seen
    /\ UNCHANGED <<ringVars, ringEnv>>

\* while a call of the observer is open, every new length of the ring is noted
ObsTrack ==
    /\ UNCHANGED obs
    /\ seen' = IF obs.pc = "idle" THEN seen
               ELSE seen \cup {len(write_idx', read_idx')}

---------------------------------------------------------------------------
(* timer.rs *)

\* The u64 of the timer is kept as an integer modulo TimeWrap, a small
\* stand-in for 2^64; the arguments of advance range over all its values.
TimeWrap == 8

\* advance is called while overflows stays below MaxOverflows
MaxOverflows == 3

TimerInit ==
    /\ ticks_us = 0
    /\ overflows = 0

\* u64::wrapping_add
wrapping_add(a, b) == (a + b) % TimeWrap

WrappedOrSame(new, old) == new <= old

\* if new < self.ticks_us
Wrapped(new, old) == new < old

\* the two fields after advance(us)
Advance(us) ==
    LET new == wrapping_add(ticks_us, us)
    IN  /\ overflows' = IF Wrapped(new, ticks_us) THEN overflows + 1 ELSE overflows
        /\ ticks_us' = new

now_us == ticks_us

TimerAdvance(us) ==
    /\ Advance(us)
    /\ klast' = [op |-> "advance", arg |-> us, ret |-> NONE, invoked |-> <<>>,
                 panicked |-> FALSE]
    /\ UNCHANGED <<schedVars, ringVars, toggles, ghostVars, obsVars>>
    /\ UNCHANGED <<total_ticks, running, run>>

TimerReset ==
    /\ ticks_us' = 0
    /\ overflows' = 0
    /\ klast' = [op |-> "reset", arg |-> 0, ret |-> NONE, invoked |-> <<>>,
                 panicked |-> FALSE]
    /\ UNCHANGED <<schedVars, ringVars, toggles, ghostVars, obsVars>>
    /\ UNCHANGED <<total_ticks, running, run>>

---------------------------------------------------------------------------
(* kernel.rs *)

\* run_for is entered while the scheduler's clock can take the whole run
\* without passing MaxRunTime
MaxRunTime == 5

\* total_us and tick_us of run_for range over 0..MaxRunArg
MaxRunArg == 3

\* SpecDrain lets time run up to this value before the catch-up begins
MaxDrainTime == 2

\* SpecTickOnly lets the kernel's time run up to this value, below TimeWrap
MaxSyncTime == 3

\* Descriptors add_task builds: Task::new, here with a period above 0
KernelTemplates == {TaskNew(CRITICAL, 2, 1), TaskNew(HIGH, 1, 1)}

\* run_for's locals; count is the number of kernel ticks the call has made,
\* counted up to MaxRunArg + 1 (no call that returns makes more than
\* MaxRunArg), and ticks0 the value of total_ticks when it began
RunIdle ==
    [pc |-> "idle", total_us |-> 0, tick_us |-> 0, elapsed |-> 0,
     tasks_executed |-> 0, count |-> 0, ticks0 |-> 0]

KernelInit ==
    /\ total_ticks = 0
    /\ running = FALSE
    /\ run = RunIdle
    /\ klast = [op |-> "new", arg |-> 0, ret |-> NONE, invoked |-> <<>>,
                panicked |-> FALSE]


\* add_task: Task::new, then Scheduler::register
AddTask(t) ==
    /\ Register(t)
    /\ klast' = [op |-> "add_task", arg |-> 0, ret |-> last'.ret,
                 invoked |-> <<>>, panicked |-> FALSE]
    /\ UNCHANGED <<toggles, ghostVars, obsVars, timerVars, total_ticks, running, run>>

\* u64 `+= 1` of total_ticks, the counter kept modulo TimeWrap like the timer
NextTotalTicks(t) == (t + 1) % TimeWrap

KernelExecuteAlways(ts, n, executed) ==
    IF executed = NONE THEN InvokedIn(ts, n, 0) ELSE InvokedIn(ts, n, executed)

\* if let Some(idx) = executed { self.scheduler.execute_task(idx, ..) }
KernelExecute(ts, n, executed) ==
    IF executed = NONE THEN <<>> ELSE InvokedIn(ts, n, executed)

KernelTickBodyAdvanceTwice(delta_us) ==
    /\ Advance(2 * delta_us)
    /\ total_ticks' = NextTotalTicks(total_ticks)
    /\ Tick(delta_us)
    /\ delta_sum' = delta_sum + delta_us

\* Kernel::tick, but for the ghost klast; delta_sum records the argument
KernelTickBody(delta_us) ==
    /\ Advance(delta_us)
    /\ total_ticks' = NextTotalTicks(total_ticks)
    /\ Tick(delta_us)
    /\ delta_sum' = delta_sum + delta_us

KernelTick(delta_us) ==
    /\ KernelTickBody(delta_us)
    /\ klast' = [op |-> "tick", arg |-> delta_us, ret |-> last'.ret,
                 invoked |-> KernelExecute(tasks', task_count', last'.ret),
                 panicked |-> FALSE]
    /\ UNCHANGED <<toggles, drain, obsVars, running, run>>

RunContinuesInclusive(elapsed, total_us, isRunning) ==
    elapsed <= total_us /\ isRunning

\* while elapsed < total_us && self.running
RunContinues(elapsed, total_us, isRunning) == elapsed < total_us /\ isRunning

\* run_for: self.running = true and the two locals
RunStart(total_us, tick_arg) ==
    /\ run.pc # "loop"
    /\ running' = TRUE
    /\ run' = [pc |-> "loop", total_us |-> total_us, tick_us |-> tick_arg,
               elapsed |-> 0, tasks_executed |-> 0, count |-> 0,
               ticks0 |-> total_ticks]
    /\ klast' = [op |-> "run_for", arg |-> 0, ret |-> NONE, invoked |-> <<>>,
                 panicked |-> FALSE]
    /\ UNCHANGED <<schedVars, ringVars, toggles, ghostVars, obsVars, timerVars, total_ticks>>

\* one turn of the loop: tick(tick_us), tasks_executed, elapsed
RunIter ==
    /\ run.pc = "loop"
    /\ RunContinues(run.elapsed, run.total_us, running)
    /\ KernelTickBody(run.tick_us)
    /\ klast' = [op |-> "run_for", arg |-> 0, ret |-> last'.ret,
                 invoked |-> klast.invoked
                     \o KernelExecute(tasks', task_count', last'.ret),
                 panicked |-> FALSE]
    /\ run' = [run EXCEPT
                 !.tasks_executed = IF last'.ret # NONE THEN @ + 1 ELSE @,
                 !.elapsed = @ + run.tick_us,
                 !.count = IF @ <= MaxRunArg THEN @ + 1 ELSE @]
    /\ UNCHANGED <<toggles, drain, obsVars, running>>

\* the loop ends: self.running = false and the statistics are returned
RunExit ==
    /\ run.pc = "loop"
    /\ ~RunContinues(run.elapsed, run.total_us, running)
    /\ running' = FALSE
    /\ run' = [run EXCEPT !.pc = "done"]
    /\ UNCHANGED klast
    /\ UNCHANGED <<schedVars, ringVars, toggles, ghostVars, obsVars, timerVars, total_ticks>>

is_running == running

---------------------------------------------------------------------------
(* Specifications *)

Init ==
    /\ SchedInit
    /\ RingInit
    /\ ObsInit
    /\ TimerInit
    /\ KernelInit
    /\ toggles = 0
    /\ delta_sum = 0
    /\ drain = [on |-> FALSE, called |-> FALSE, tasks0 |-> <<>>]

\* tick is called while time and the dispatch counters stay within the bounds
TickAllowed(delta_us, maxTime, maxExec) ==
    /\ tick_us + delta_us <= maxTime
    /\ \A i \in 0..(task_count - 1) : tasks[i].exec_count < maxExec

(* Spec: a driver that registers tasks and ticks *)

DoRegister ==
    \E t \in Templates :
        task_count < MaxReg /\ Register(t) /\ UNCHANGED <<toggles, otherVars>>

DoTick ==
    \E d \in Deltas :
        TickAllowed(d, MaxTime, MaxExec) /\ Tick(d) /\ UNCHANGED <<toggles, otherVars>>

Next == DoRegister \/ DoTick

Spec == Init /\ [][Next]_vars

(* SpecSuspend: a driver that also suspends and resumes *)

SuspRegister ==
    \E t \in SuspTemplates :
        task_count < MaxReg /\ Register(t) /\ UNCHANGED <<toggles, otherVars>>

SuspTick ==
    \E d \in SuspDeltas :
        TickAllowed(d, MaxSuspTime, MaxExec) /\ Tick(d) /\ UNCHANGED <<toggles, otherVars>>

DoSuspend ==
    \E i \in 0..MaxReg :
        toggles < MaxToggles /\ Suspend(i) /\ toggles' = toggles + 1
            /\ UNCHANGED otherVars

DoResume ==
    \E i \in 0..MaxReg :
        toggles < MaxToggles /\ Resume(i) /\ toggles' = toggles + 1
            /\ UNCHANGED otherVars

NextSuspend == SuspRegister \/ SuspTick \/ DoSuspend \/ DoResume

SpecSuspend == Init /\ [][NextSuspend]_vars

(* SpecTable: a driver that fills the task table and registers once more *)

TableRegister ==
    \E t \in TableTemplates :
        /\ task_count >= MaxReg => t = TableFiller
        /\ Register(t)
        /\ UNCHANGED <<toggles, otherVars>>

TableTick ==
    \E d \in SuspDeltas :
        TickAllowed(d, MaxSuspTime, MaxTableExec) /\ Tick(d)
            /\ UNCHANGED <<toggles, otherVars>>

TableSuspend ==
    \E i \in {0, MAX_TASKS - 1, MAX_TASKS} :
        toggles < MaxToggles /\ Suspend(i) /\ toggles' = toggles + 1
            /\ UNCHANGED otherVars

TableResume ==
    \E i \in {0, MAX_TASKS - 1, MAX_TASKS} :
        toggles < MaxToggles /\ Resume(i) /\ toggles' = toggles + 1
            /\ UNCHANGED otherVars

NextTable == TableRegister \/ TableTick \/ TableSuspend \/ TableResume

SpecTable == Init /\ [][NextTable]_vars

(* SpecExec: a driver that registers, ticks and calls execute_task; a      *)
(* panic ends the program                                                  *)

ExecRegister ==
    \E t \in SuspTemplates \cup {TaskEmpty} :
        /\ ~klast.panicked
        /\ task_count < MaxReg
        /\ Register(t)
        /\ UNCHANGED <<toggles, otherVars>>

ExecTick ==
    \E d \in SuspDeltas :
        /\ ~klast.panicked
        /\ TickAllowed(d, MaxSuspTime, MaxExec)
        /\ Tick(d)
        /\ UNCHANGED <<toggles, otherVars>>

ExecIndices == 0..MaxReg \cup {MAX_TASKS - 1, MAX_TASKS, MAX_TASKS + 1}

ExecCall == \E i \in ExecIndices : ~klast.panicked /\ ExecuteTask(i)

NextExec == ExecRegister \/ ExecTick \/ ExecCall

SpecExec == Init /\ [][NextExec]_vars

(* SpecKernel: a driver that adds tasks, ticks the kernel and advances its *)
(* public timer                                                            *)

KAddTask ==
    \E t \in KernelTemplates \cup {TaskNew(IDLE, 1, 1)} :
        task_count < MaxReg /\ AddTask(t)

KTick ==
    \E d \in SuspDeltas :
        TickAllowed(d, MaxTime, MaxExec) /\ KernelTick(d)

KAdvance ==
    \E us \in {TimeWrap - 1} : overflows < MaxOverflows /\ TimerAdvance(us)

NextKernel == KAddTask \/ KTick \/ KAdvance

SpecKernel == Init /\ [][NextKernel]_vars

(* SpecTickOnly: a driver that adds tasks and reaches the timer and the    *)
(* scheduler through Kernel::tick alone                                    *)

OnlyAddTask ==
    \E t \in KernelTemplates :
        task_count < MaxReg /\ AddTask(t)

OnlyTick ==
    \E d \in Deltas :
        TickAllowed(d, MaxSyncTime, MaxSyncTime + 1) /\ KernelTick(d)

NextTickOnly == OnlyAddTask \/ OnlyTick

SpecTickOnly == Init /\ [][NextTickOnly]_vars

(* SpecRun: a driver that adds tasks and calls run_for; FairSpecRun: the   *)
(* same, where a call of run_for that can take a step takes one            *)

RAddTask ==
    \E t \in KernelTemplates :
        run.pc # "loop" /\ task_count < MaxReg /\ AddTask(t)

RStart ==
    \E total_us \in 0..MaxRunArg, tick_arg \in 0..MaxRunArg :
        /\ tick_us + total_us + tick_arg <= MaxRunTime
        /\ RunStart(total_us, tick_arg)

NextRun == RAddTask \/ RStart \/ RunIter \/ RunExit

SpecRun == Init /\ [][NextRun]_vars

FairSpecRun == Init /\ [][NextRun]_vars /\ WF_vars(RunIter \/ RunExit)

(* SpecDrain: a driver that registers its tasks, then ticks, suspends and  *)
(* resumes, and then catches up by calling tick(0) and nothing else;       *)
(* FairSpecDrain: the same, where the caller that catches up keeps calling *)

DrainRegister ==
    \E t \in SuspTemplates :
        /\ ~drain.on
        /\ last.op \in {"new", "register"}
        /\ task_count < MaxReg
        /\ Register(t)
        /\ UNCHANGED <<toggles, otherVars>>

DrainAdvance ==
    \E d \in Deltas :
        /\ ~drain.on
        /\ TickAllowed(d, MaxDrainTime, MaxTableExec)
        /\ Tick(d)
        /\ UNCHANGED <<toggles, otherVars>>

\* one task is suspended, once
DrainSuspend ==
    \E i \in 0..(task_count - 1) :
        /\ ~drain.on
        /\ toggles = 0
        /\ Suspend(i)
        /\ toggles' = 1
        /\ UNCHANGED otherVars

DrainResume ==
    \E i \in 0..(task_count - 1) :
        /\ ~drain.on
        /\ ResumeApplies(i)
        /\ Resume(i)
        /\ UNCHANGED <<toggles, otherVars>>

StartDrain ==
    /\ ~drain.on
    /\ drain' = [on |-> TRUE, called |-> FALSE, tasks0 |-> tasks]
    /\ UNCHANGED <<schedVars, ringVars, toggles, obsVars, timerVars, kernelVars,
                   delta_sum>>

DrainTick ==
    /\ drain.on
    /\ Tick(0)
    /\ drain' = [drain EXCEPT !.called = TRUE]
    /\ UNCHANGED <<toggles, obsVars, timerVars, kernelVars, delta_sum>>

NextDrain ==
    \/ DrainRegister
    \/ DrainAdvance
    \/ DrainSuspend
    \/ DrainResume
    \/ StartDrain
    \/ DrainTick

SpecDrain == Init /\ [][NextDrain]_vars

FairSpecDrain == Init /\ [][NextDrain]_vars /\ WF_vars(DrainTick)

(* SpecTimer: a driver that advances and resets a SysTimer *)

DoAdvance ==
    \E us \in 0..(TimeWrap - 1) : overflows < MaxOverflows /\ TimerAdvance(us)

DoReset == TimerReset

NextTimer == DoAdvance \/ DoReset

SpecTimer == Init /\ [][NextTimer]_vars

(* SpecRms: a driver that registers one task with a utilisation and up to  *)
(* MaxRmsReg - 1 tasks without one, suspends, ticks and asks               *)
(* is_schedulable                                                          *)

RmsRegister ==
    \E t \in RmsFirst \cup {RmsFiller, TaskEmpty} :
        /\ task_count < MaxRmsReg
        /\ task_count = 0 <=> t \in RmsFirst
        /\ task_count > 1 => t = RmsFiller
        /\ Register(t)
        /\ UNCHANGED <<toggles, otherVars>>

RmsTick ==
    TickAllowed(0, MaxSuspTime, MaxTableExec) /\ Tick(0)
        /\ UNCHANGED <<toggles, otherVars>>

RmsSuspend ==
    \E i \in {0, 1} :
        toggles < MaxToggles /\ Suspend(i) /\ toggles' = toggles + 1
            /\ UNCHANGED otherVars

RmsResume ==
    \E i \in {0, 1} :
        toggles < MaxToggles /\ Resume(i) /\ toggles' = toggles + 1
            /\ UNCHANGED otherVars

RmsCheck == IsSchedulableCall /\ UNCHANGED <<toggles, otherVars>>

NextRms == RmsRegister \/ RmsTick \/ RmsSuspend \/ RmsResume \/ RmsCheck

SpecRms == Init /\ [][NextRms]_vars

(* SpecRing: one producer pushing and one consumer popping concurrently *)

Producer ==
    \/ \E v \in Values : Len(pushed) < MaxPush /\ PushLoadWrite(v)
    \/ PushLoadRead
    \/ PushFull
    \/ PushWriteSlot
    \/ PushStoreIdx

Consumer ==
    \/ PopLoadRead
    \/ PopLoadWrite
    \/ PopEmpty
    \/ PopReadSlot
    \/ PopStoreIdx

NextRing == (Producer \/ Consumer) /\ UNCHANGED obsVars

SpecRing == Init /\ [][NextRing]_vars

(* SpecSeq: push, pop and clear called one after the other *)

SeqPush == cons.pc = "idle" /\ Producer /\ UNCHANGED obsVars

SeqPop == prod.pc = "idle" /\ Consumer /\ UNCHANGED obsVars

SeqClear ==
    prod.pc = "idle" /\ cons.pc = "idle" /\ Clear /\ UNCHANGED obsVars

NextSeq == SeqPush \/ SeqPop \/ SeqClear

SpecSeq == Init /\ [][NextSeq]_vars

(* SpecObs: an observer calling len, is_empty and is_full while one        *)
(* producer pushes and one consumer pops                                   *)

Observer ==
    \/ \E op \in ObsOps : ObsLoadWrite(op)
    \/ ObsLoadRead

ObsProducer == Len(pushed) < MaxObsPush /\ Producer /\ ObsTrack

ObsConsumer == Consumer /\ ObsTrack

NextObs == ObsProducer \/ ObsConsumer \/ Observer

SpecObs == Init /\ [][NextObs]_vars

---------------------------------------------------------------------------
(* Properties *)

Registered == 0..(task_count - 1)

\* Ready once the readiness update of a tick that ends at `now` has run
ReadyAt(t, now) ==
    \/ t.state = "Ready"
    \/ t.state = "Sleeping" /\ now >= t.next_activation

\* this step is a call of tick / a call of tick that returned Some
TickStep == last'.op = "tick"

TickSome == last'.op = "tick" /\ last'.ret # NONE

\* C1: whenever tick returns Some(i), task i was Ready after the readiness
\* update, no registered Ready task had a numerically smaller priority and
\* no Ready task of the same priority had a lower index.
C1_SelectsBestReady ==
    [][TickSome =>
        LET i == last'.ret
        IN  /\ i \in Registered
            /\ ReadyAt(tasks[i], tick_us')
            /\ \A j \in Registered :
                   ReadyAt(tasks[j], tick_us') =>
                       /\ tasks[j].priority >= tasks[i].priority
                       /\ tasks[j].priority = tasks[i].priority => j >= i]_vars

\* a tick chose index 0 over a Ready task of the same priority at index 1
C1_Witness ==
    /\ last = [op |-> "tick", ret |-> 0]
    /\ task_count = 2
    /\ tasks[1].state = "Ready"
    /\ tasks[1].priority = tasks[0].priority

\* C2 (as claimed): tick returns None, clearing current_task, exactly when
\* no registered descriptor is Ready after the readiness update, whatever
\* the priorities, IDLE included.
C2_NoneIffNothingReady ==
    [][TickStep =>
        ((last'.ret = NONE /\ current_task' = NONE)
            <=> ~ \E j \in Registered : ReadyAt(tasks[j], tick_us'))]_vars

\* C3: a tick that returns Some(i) adds exactly 1 to task i's exec_count and
\* exactly period_us to its next_activation and leaves it Sleeping; no
\* descriptor is ever seen in state Running between scheduler calls.
C3_DispatchBookkeeping ==
    /\ [][TickSome =>
            LET i == last'.ret
            IN  /\ tasks'[i].exec_count = tasks[i].exec_count + 1
                /\ tasks'[i].next_activation =
                       tasks[i].next_activation + tasks[i].period_us
                /\ tasks'[i].state = "Sleeping"]_vars
    /\ [](\A i \in Registered : tasks[i].state # "Running")

\* a task of period 2, due at 0, was dispatched late, at 1: its next
\* activation is 2, one period after the one it was dispatched for
C3_Witness ==
    /\ last.op = "tick"
    /\ last.ret # NONE
    /\ tick_us = 1
    /\ tasks[last.ret].period_us = 2
    /\ tasks[last.ret].exec_count = 1
    /\ tasks[last.ret].next_activation = 2

\* C4: context_switches never decreases; a tick adds exactly 1 when it
\* dispatches an index other than the previous current_task and otherwise
\* leaves it unchanged; an idle tick resets current_task to None.
C4_ContextSwitches ==
    [][/\ context_switches' >= context_switches
       /\ TickStep =>
            /\ current_task' = last'.ret
            /\ context_switches' =
                  IF last'.ret # NONE /\ last'.ret # current_task
                  THEN context_switches + 1
                  ELSE context_switches]_vars

\* the same task was dispatched twice in a row: the first dispatch was a
\* switch, the second left the counter alone
C4_Witness ==
    /\ last.op = "tick"
    /\ last.ret # NONE
    /\ current_task = last.ret
    /\ context_switches = 1
    /\ tasks[last.ret].exec_count = 2

\* the RMS assumptions on the registered set: every descriptor comes from
\* Task::new with 0 < wcet_us <= period_us, shorter period = higher priority
RmsAssumptions ==
    /\ \A i \in Registered :
          /\ tasks[i].func
          /\ tasks[i].state # "Suspended"
          /\ tasks[i].wcet_us <= tasks[i].period_us
    /\ \A i, j \in Registered :
          tasks[i].period_us < tasks[j].period_us
              => tasks[i].priority < tasks[j].priority

\* C5 (as claimed): while is_schedulable() holds of a set that meets the RMS
\* assumptions, no tick increments a deadline_misses counter and every
\* dispatch happens no later than one period after the activation was due.
C5_SchedulableMeetsDeadlines ==
    [][(TickStep /\ is_schedulable /\ RmsAssumptions) =>
        \A i \in Registered :
            /\ tasks'[i].deadline_misses = tasks[i].deadline_misses
            /\ last'.ret = i =>
                  tick_us' <= tasks[i].next_activation + tasks[i].period_us]_vars

\* C6: a tick that dispatches task i adds exactly 1 to its deadline_misses
\* iff the updated tick_us exceeds its earlier next_activation + period_us;
\* no other step changes the counter, which never decreases.
C6_DeadlineMisses ==
    [][\A i \in Registered :
        /\ tasks'[i].deadline_misses >= tasks[i].deadline_misses
        /\ (TickStep /\ last'.ret = i) =>
              tasks'[i].deadline_misses =
                  IF tick_us' > tasks[i].next_activation + tasks[i].period_us
                  THEN tasks[i].deadline_misses + 1
                  ELSE tasks[i].deadline_misses
        /\ (TickStep /\ last'.ret # i) =>
              tasks'[i].deadline_misses = tasks[i].deadline_misses]_vars

\* a dispatch exactly one period late (no miss) after an earlier miss
C6_Witness ==
    /\ last.op = "tick"
    /\ last.ret # NONE
    /\ tasks[last.ret].deadline_misses = 1
    /\ tasks[last.ret].exec_count = 2
    /\ tasks[last.ret].period_us = 1
    /\ tick_us = tasks[last.ret].next_activation

\* C7: register succeeds iff task_count < MAX_TASKS; it then stores the
\* task at index task_count with next_activation = tick_us, adds 1 to
\* task_count, returns that index and leaves the earlier tasks alone; on a
\* full table it returns None and changes nothing.
C7_Register ==
    [][last'.op = "register" =>
        IF task_count < MAX_TASKS
        THEN /\ last'.ret = task_count
             /\ task_count' = task_count + 1
             /\ \E t \in TableTemplates :
                    tasks'[task_count] = [t EXCEPT !.next_activation = tick_us]
             /\ \A j \in Registered : tasks'[j] = tasks[j]
             /\ UNCHANGED <<current_task, tick_us, context_switches>>
        ELSE /\ last'.ret = NONE
             /\ UNCHANGED <<tasks, task_count, current_task, tick_us,
                            context_switches>>]_vars

\* a register was refused on a full table whose last slot was filled at
\* time 1
C7_Witness ==
    /\ last = [op |-> "register", ret |-> NONE]
    /\ task_count = MAX_TASKS
    /\ tick_us = 1
    /\ tasks[MAX_TASKS - 1].next_activation = 1

\* C8: in every reachable state active_task_count() <= task_count <= MAX_TASKS.
C8_CountBounds ==
    /\ active_task_count <= task_count
    /\ task_count <= MAX_TASKS

\* the table is full, holds an Inactive descriptor, and a further register
\* has been refused
C8_Witness ==
    /\ task_count = MAX_TASKS
    /\ active_task_count < task_count
    /\ last = [op |-> "register", ret |-> NONE]

\* task j is Ready in this tick and would be chosen before task i
Beats(j, i, now) ==
    /\ j # i
    /\ ReadyAt(tasks[j], now)
    /\ \/ tasks[j].priority < tasks[i].priority
       \/ tasks[j].priority = tasks[i].priority /\ j < i

\* C9 (as claimed): a Suspended task is not dispatched and keeps its
\* exec_count and next_activation until it is resumed; resume of a
\* Suspended task makes it Ready with next_activation = tick_us; and a
\* tick(0) right after that resume dispatches it unless a task that is
\* Ready outranks it (smaller priority, or equal priority and lower index).
C9_SuspendResume ==
    [][/\ \A i \in Registered :
            (tasks[i].state = "Suspended"
                /\ ~(last'.op = "resume" /\ last'.ret = i)) =>
                /\ ~(TickStep /\ last'.ret = i)
                /\ tasks'[i].exec_count = tasks[i].exec_count
                /\ tasks'[i].next_activation = tasks[i].next_activation
       /\ (last'.op = "resume" /\ last'.ret # NONE) =>
            /\ tasks[last'.ret].state = "Suspended"
            /\ tasks'[last'.ret].state = "Ready"
            /\ tasks'[last'.ret].next_activation = tick_us'
       /\ (last.op = "resume" /\ last.ret # NONE
              /\ TickStep /\ tick_us' = tick_us) =>
            \/ last'.ret = last.ret
            \/ \E j \in Registered : Beats(j, last.ret, tick_us')]_vars

RECURSIVE IsPrefix(_, _)
IsPrefix(s, t) ==
    IF s = <<>> THEN TRUE
    ELSE /\ t # <<>>
         /\ Head(s) = Head(t)
         /\ IsPrefix(Tail(s), Tail(t))

\* C10: under every interleaving of the producer's and the consumer's
\* steps, the values popped so far are a prefix of the values pushed so
\* far, in push order, also once the indices have wrapped.
C10_Fifo == IsPrefix(popped, pushed)

\* N values have gone through the ring, so both indices have wrapped; the
\* consumer is returning the next one, read from a slot that was used
\* before, while the producer is in the middle of a further push
C10_Witness ==
    /\ Len(popped) = N
    /\ cons.pc = "store"
    /\ cons.value = pushed[N + 1]
    /\ prod.pc = "store"

\* the queue the ring holds: the slots from read_idx up to write_idx
Contents ==
    [k \in 1..len(write_idx, read_idx) |-> buffer[(read_idx + k - 1) % N]]

RingUnchanged == UNCHANGED <<buffer, write_idx, read_idx>>

\* what each step of a sequential push or pop does to the queue
FifoStep ==
    /\ (prod.pc = "check" /\ prod'.pc = "idle")
         => Len(Contents) = N - 1 /\ RingUnchanged
    /\ (prod.pc = "check" /\ prod'.pc = "store")
         => Len(Contents) < N - 1 /\ Contents' = Contents
    /\ (prod.pc = "store" /\ prod'.pc = "idle")
         => Contents' = Append(Contents, prod.value)
    /\ (cons.pc = "check" /\ cons'.pc = "idle")
         => Contents = <<>> /\ RingUnchanged
    /\ (cons.pc = "check" /\ cons'.pc = "store")
         => Contents # <<>> /\ RingUnchanged
    /\ (cons.pc = "store" /\ cons'.pc = "idle")
         => /\ Contents # <<>>
            /\ cons.value = Head(Contents)
            /\ popped' = Append(popped, Head(Contents))
            /\ Contents' = Tail(Contents)
    /\ (prod'.pc \in {"load_read", "check"} \/ cons'.pc \in {"load_write", "check"})
         => RingUnchanged

\* C11: run sequentially, the ring is a FIFO queue of capacity N-1.  push
\* returns false exactly when the queue holds N-1 items and then leaves the
\* ring unchanged, otherwise it appends its argument; pop returns None
\* exactly when the queue is empty and then leaves the ring unchanged,
\* otherwise it removes and returns the oldest item; the queue never holds
\* more than N-1 items.
C11_BoundedFifo == [][FifoStep]_vars /\ [](Len(Contents) <= N - 1)

\* a push is about to return false on a ring whose N-1 items lie across the
\* wrap of the indices
C11_Witness ==
    /\ prod.pc = "check"
    /\ RingFull(prod.write, prod.read)
    /\ cons.pc = "idle"
    /\ write_idx < read_idx
    /\ Len(Contents) = N - 1
    /\ Len(popped) >= 1

\* C12: in every state reached by push, pop and clear both indices lie in
\* 0..N-1, len() is (write_idx - read_idx) mod N and at most N-1,
\* is_empty() holds iff the indices are equal iff len() is 0, and is_full()
\* holds iff (write_idx + 1) mod N = read_idx iff len() = capacity() = N-1.
C12_RingInvariants ==
    /\ write_idx \in 0..(N - 1)
    /\ read_idx \in 0..(N - 1)
    /\ len(write_idx, read_idx) = (write_idx - read_idx) % N
    /\ len(write_idx, read_idx) <= N - 1
    /\ is_empty(write_idx, read_idx) <=> read_idx = write_idx
    /\ is_empty(write_idx, read_idx) <=> len(write_idx, read_idx) = 0
    /\ is_full(write_idx, read_idx) <=> (write_idx + 1) % N = read_idx
    /\ is_full(write_idx, read_idx) <=> len(write_idx, read_idx) = capacity
    /\ capacity = N - 1

\* a full ring whose items lie across the wrap, after a clear discarded some
C12_Witness ==
    /\ prod.pc = "idle"
    /\ cons.pc = "idle"
    /\ is_full(write_idx, read_idx)
    /\ write_idx < read_idx
    /\ Len(pushed) - Len(popped) > len(write_idx, read_idx)

\* the value a call of the observer would return on a ring of length l
TrueResult(op, l) ==
    CASE op = "len" -> l
      [] op = "is_empty" -> l = 0
      [] op = "is_full" -> l = N - 1

\* C13: the value returned by len(), is_empty() or is_full(), run
\* concurrently with the producer and the consumer, is the ring's true
\* length / emptiness / fullness at some instant between the start and the
\* end of the call.
C13_SnapshotConsistent ==
    (obs.pc = "idle" /\ obs.op # "none")
        => \E l \in seen : obs.ret = TrueResult(obs.op, l)

\* reads of pushed values the consumer has finished: the completed pops and
\* the read of a pop that has not yet stored its index
FinishedReads == Len(popped) + (IF cons.pc = "store" THEN 1 ELSE 0)

\* the k-th accepted value lies in slot (k-1) mod N; the slots holding pushed
\* values the consumer has not finished reading
UnreadSlots == {(k - 1) % N : k \in (FinishedReads + 1)..Len(pushed)}

SlotStep ==
    /\ (prod.pc = "check" /\ prod'.pc = "store")
         => /\ prod.write \notin UnreadSlots
            /\ \A i \in UnreadSlots : buffer'[i] = buffer[i]
    /\ (cons.pc = "check" /\ cons'.pc = "store")
         => /\ Len(pushed) > Len(popped)
            /\ cons.read = Len(popped) % N
            /\ cons'.value = pushed[Len(popped) + 1]
    /\ write_idx' # write_idx
         => prod.pc = "store" /\ prod'.pc = "idle" /\ cons' = cons
    /\ read_idx' # read_idx
         => cons.pc = "store" /\ cons'.pc = "idle" /\ prod' = prod

\* C14: under every interleaving of push steps and pop steps the producer
\* never writes a slot holding a pushed value the consumer has not finished
\* reading, the consumer never reads a slot before the producer's write of
\* it is complete and published, only the producer changes write_idx and
\* only the consumer changes read_idx.
C14_SlotOwnership == [][SlotStep]_vars

\* the producer is about to reuse a slot after the wrap while the consumer
\* is about to read another slot
C14_Witness ==
    /\ prod.pc = "check"
    /\ ~RingFull(prod.write, prod.read)
    /\ Len(pushed) >= N
    /\ cons.pc = "check"
    /\ ~RingEmpty(cons.read, cons.write)
    /\ UnreadSlots # {}

\* the registered descriptors that are not Inactive
NonInactive == {i \in Registered : tasks[i].state # "Inactive"}

\* those of them that contribute to the sum
Contributing == {i \in NonInactive : tasks[i].period_us # 0}

RECURSIVE ProductOfPeriods(_)
ProductOfPeriods(S) ==
    IF S = {} THEN 1
    ELSE LET i == CHOOSE j \in S : TRUE
         IN  tasks[i].period_us * ProductOfPeriods(S \ {i})

\* the sum of wcet_us / period_us over S, as a numerator over den
RECURSIVE SumOfQuotients(_, _)
SumOfQuotients(S, den) ==
    IF S = {} THEN 0
    ELSE LET i == CHOOSE j \in S : TRUE
         IN  tasks[i].wcet_us * (den \div tasks[i].period_us)
                 + SumOfQuotients(S \ {i}, den)

\* the bound the claim gives for n tasks, in thousandths
TableBound(n) ==
    CASE n = 1 -> 1000 [] n = 2 -> 828 [] n = 3 -> 780 [] n = 4 -> 757
      [] n = 5 -> 743 [] n = 6 -> 735 [] n = 7 -> 729 [] n = 8 -> 724
      [] OTHER -> 693

\* C18: is_schedulable() returns true iff the number n of non-Inactive
\* registered tasks (Suspended ones included) is 0, or the sum of
\* wcet_us / period_us over them (period 0 contributing 0) is at most the
\* bound for n: 1.000, 0.828, 0.780, 0.757, 0.743, 0.735, 0.729, 0.724 for
\* n = 1..8 and 0.693 for n >= 9.
C18_SchedulableIff ==
    last.op = "is_schedulable"
        => (last.ret = 1
            <=> \/ Cardinality(NonInactive) = 0
                \/ LET den == ProductOfPeriods(Contributing)
                   IN  LeqThousandths(SumOfQuotients(Contributing, den), den,
                                      TableBound(Cardinality(NonInactive))))

ExecStep == klast' # klast /\ klast'.op = "execute_task"

\* C19: execute_task(idx, scratch) runs the function of slot idx exactly
\* once when the slot holds one, and otherwise (no function, or idx out of
\* range, also idx >= task_count and idx >= MAX_TASKS) runs nothing; it
\* never panics and changes no state.
C19_ExecuteTask ==
    [][ExecStep
        => /\ ~klast'.panicked
           /\ klast'.invoked =
                  IF klast'.arg < task_count /\ tasks[klast'.arg].func
                  THEN <<klast'.arg>> ELSE <<>>
           /\ UNCHANGED <<schedVars, ringVars, timerVars, total_ticks, running>>
      ]_vars

TimerStep ==
    /\ klast'.op = "advance"
         => LET sum == ticks_us + klast'.arg
            IN  /\ ticks_us' = sum % TimeWrap
                /\ (sum >= TimeWrap) <=> (ticks_us' < ticks_us)
                /\ overflows' = IF sum >= TimeWrap THEN overflows + 1
                                ELSE overflows
                /\ sum < TimeWrap => now_us' >= now_us
    /\ klast'.op = "reset" => ticks_us' = 0 /\ overflows' = 0

\* C20: advance(us) sets ticks_us to (ticks_us + us) modulo the width of
\* the counter and adds 1 to overflows exactly when the addition wrapped,
\* which is exactly when the new value is smaller than the old one; without
\* a wrap or a reset now_us() does not decrease; reset() sets both to 0.
C20_TimerAdvance == [][TimerStep]_vars

\* an advance that wrapped for the second time
C20_Witness ==
    /\ klast.op = "advance"
    /\ ticks_us < klast.arg
    /\ overflows = 2

\* the index Scheduler::tick(delta_us) chooses in the current state
Chosen(delta_us) ==
    find_highest_priority_ready(
        MarkReady(tasks, 0, task_count, tick_us + delta_us), task_count)

KernelTickStep ==
    klast'.op = "tick"
        => LET d == klast'.arg
           IN  /\ ticks_us' = (ticks_us + d) % TimeWrap
               /\ total_ticks' = (total_ticks + 1) % TimeWrap
               /\ last' = [op |-> "tick", ret |-> Chosen(d)]
               /\ tick_us' = tick_us + d
               /\ klast'.ret = Chosen(d)
               /\ klast'.invoked =
                      IF Chosen(d) # NONE THEN <<Chosen(d)>> ELSE <<>>
               /\ ~klast'.panicked

\* C15: Kernel::tick(delta_us) advances the time source by delta_us, adds
\* exactly 1 to total_ticks whether or not a task is dispatched, returns the
\* index Scheduler::tick(delta_us) chooses, runs the function of that task
\* exactly once when the result is Some and runs no function when it is
\* None.
C15_KernelTick == [][KernelTickStep]_vars

\* a kernel tick that wrapped the timer, dispatched a task and ran its
\* function, after an earlier tick
C15_Witness ==
    /\ klast.op = "tick"
    /\ klast.ret # NONE
    /\ klast.invoked = <<klast.ret>>
    /\ ticks_us < klast.arg
    /\ total_ticks >= 2

\* C16: every call run_for(total_us, tick_us) terminates, for all argument
\* values, tick_us = 0 included: a call that has entered its loop returns.
C16_RunForTerminates == (run.pc = "loop") ~> (run.pc = "done")

Ceil(a, b) == (a + b - 1) \div b

\* what a returned call run_for(total_us, tick_us), tick_us > 0, has done
RunForReturned ==
    (run.pc = "done" /\ run.tick_us > 0)
        => LET n == Ceil(run.total_us, run.tick_us)
           IN  /\ run.count = n
               /\ run.elapsed = n * run.tick_us
               /\ run.elapsed >= run.total_us
               /\ run.elapsed - run.tick_us < run.total_us \/ n = 0
               /\ (run.total_us % run.tick_us = 0) => run.elapsed = run.total_us
               /\ (total_ticks - run.ticks0) % TimeWrap = n % TimeWrap
               /\ run.tasks_executed <= n
               /\ klast.op = "run_for"
                    => run.tasks_executed = Len(klast.invoked)
               /\ ~is_running

\* a turn of the loop is one kernel tick of exactly tick_us
RunForTurn ==
    (run.pc = "loop" /\ run'.pc = "loop" /\ run' # run)
        => /\ tick_us' = tick_us + run.tick_us
           /\ ticks_us' = (ticks_us + run.tick_us) % TimeWrap
           /\ total_ticks' = (total_ticks + 1) % TimeWrap
           /\ run'.tasks_executed =
                  run.tasks_executed + (IF last'.ret # NONE THEN 1 ELSE 0)

\* C17: for tick_us > 0, run_for(total_us, tick_us) makes exactly
\* ceil(total_us / tick_us) kernel ticks, each of exactly tick_us; the
\* returned total_us is that count times tick_us, the smallest multiple of
\* tick_us that is >= total_us; total_ticks grows by the count; the returned
\* tasks_executed is the number of those ticks that dispatched a task; and
\* is_running() is false after the call.
C17_RunForCount == []RunForReturned /\ [][RunForTurn]_vars

\* run_for(3, 2) has returned after two ticks, one more microsecond than
\* asked, with a task dispatched
C17_Witness ==
    /\ run.pc = "done"
    /\ run.total_us = 3
    /\ run.tick_us = 2
    /\ run.count = 2
    /\ run.elapsed = 4
    /\ run.tasks_executed >= 1
    /\ klast.op = "run_for"

\* C21: in every reachable scheduler state, a registered descriptor built
\* with Task::new or Task::empty has no function if and only if its state
\* is Inactive.
C21_FuncIffActive ==
    \A i \in Registered : ~tasks[i].func <=> tasks[i].state = "Inactive"

\* The part of C22 about utilization: a period of 0 contributes 0
PeriodZeroAddsNothing ==
    \A i \in Registered :
        tasks[i].period_us = 0 => utilization(tasks[i], 1) = 0

\* C22: a registered task whose period_us is 0 is inert: it contributes 0
\* to the total utilization and tick never dispatches it, so that its
\* exec_count stays 0 over any sequence of ticks.
C22_PeriodZeroInert ==
    \A i \in Registered :
        tasks[i].period_us = 0 =>
            /\ utilization(tasks[i], 1) = 0
            /\ tasks[i].exec_count = 0

\* every descriptor in state Ready is due
ReadyIsDue ==
    \A i \in Registered :
        tasks[i].state = "Ready" => tasks[i].next_activation <= tick_us

\* a tick that returns Some(i) ends at or after the activation time that
\* task i had before the call
DispatchedWhenDue ==
    TickSome => tick_us' >= tasks[last'.ret].next_activation

\* C23: a task is never dispatched before it is due: every Ready descriptor
\* has next_activation <= tick_us in every reachable state, and whenever
\* tick returns Some(i) the updated tick_us is at least task i's
\* next_activation from before the dispatch, for any sequence of register,
\* tick, suspend and resume.
C23_NeverEarly == []ReadyIsDue /\ [][DispatchedWhenDue]_vars

\* tick dispatched a task that had slept until its activation time, while
\* an overdue Ready task still waits
C23_Witness ==
    /\ last.op = "tick" /\ last.ret # NONE
    /\ tick_us > 0
    /\ tasks[last.ret].exec_count >= 2
    /\ tasks[last.ret].next_activation > tick_us
    /\ \E j \in Registered :
          tasks[j].state = "Ready" /\ tasks[j].next_activation < tick_us

\* the fields of task j that only its own dispatch or a registration writes
SameCounters(j) ==
    /\ tasks'[j].exec_count = tasks[j].exec_count
    /\ tasks'[j].next_activation = tasks[j].next_activation
    /\ tasks'[j].deadline_misses = tasks[j].deadline_misses

SameParameters(j) ==
    /\ tasks'[j].priority = tasks[j].priority
    /\ tasks'[j].period_us = tasks[j].period_us
    /\ tasks'[j].wcet_us = tasks[j].wcet_us

WokenAtMost(j) ==
    \/ tasks'[j].state = tasks[j].state
    \/ tasks[j].state = "Sleeping" /\ tasks'[j].state = "Ready"

TickFrame ==
    TickStep =>
        /\ task_count' = task_count
        /\ last'.ret # NONE =>
              /\ tasks'[last'.ret].exec_count = tasks[last'.ret].exec_count + 1
              /\ \A j \in Registered \ {last'.ret} :
                    SameCounters(j) /\ SameParameters(j) /\ WokenAtMost(j)
        /\ last'.ret = NONE => \A j \in Registered : SameCounters(j)

SuspendResumeFrame ==
    last'.op \in {"suspend", "resume"} => task_count' = task_count

\* C24: a tick dispatches at most one task and changes nothing else: when it
\* returns Some(i), every other registered task keeps exec_count,
\* next_activation, deadline_misses, priority, period_us and wcet_us and its
\* state changes at most from Sleeping to Ready; when it returns None no
\* task's counters or next_activation change; tick, suspend and resume never
\* change task_count.
C24_TickFrame == [][TickFrame /\ SuspendResumeFrame]_vars

\* tick dispatched one task while another, dispatched earlier and due again
\* at this very time, was only woken
C24_Witness ==
    /\ last.op = "tick" /\ last.ret # NONE
    /\ task_count >= 2
    /\ \E j \in Registered \ {last.ret} :
          /\ tasks[j].state = "Ready"
          /\ tasks[j].exec_count >= 1
          /\ tasks[j].next_activation = tick_us
          /\ tasks[j].period_us > 0

\* C25: when the kernel is driven through Kernel::tick alone and the time
\* does not overflow, timer.now_us() equals scheduler.now_us() in every
\* reachable state, and both equal the sum of all delta_us passed so far.
C25_ClocksAgree ==
    overflows = 0 =>
        /\ now_us = scheduler_now_us
        /\ now_us = delta_sum

\* several kernel ticks with different arguments have added up
C25_Witness ==
    /\ klast.op = "tick" /\ klast.arg = 1
    /\ total_ticks >= 3
    /\ delta_sum = 3
    /\ now_us = 3 /\ scheduler_now_us = 3
    /\ overflows = 0

\* every registered task has a period above 0 and a priority below IDLE
AllPeriodic ==
    \A i \in Registered : tasks[i].period_us > 0 /\ tasks[i].priority < IDLE

\* the number of periods descriptor t is behind at time now: its activation
\* times next_activation, next_activation + period_us, ... up to now
Behind(t, now) ==
    IF t.state \in {"Ready", "Sleeping"} /\ t.next_activation <= now
    THEN ((now - t.next_activation) \div t.period_us) + 1
    ELSE 0

\* tick(0) has returned None, every task has been dispatched once for each
\* period it was behind when the catch-up began, and every task that is not
\* suspended sleeps until a later time
Drained ==
    /\ drain.on /\ drain.called
    /\ last.op = "tick" /\ last.ret = NONE
    /\ \A i \in Registered :
          LET t0 == drain.tasks0[i]
              k == Behind(t0, tick_us)
          IN  /\ tasks[i].exec_count = t0.exec_count + k
              /\ tasks[i].next_activation = t0.next_activation + k * t0.period_us
              /\ tasks[i].state # "Suspended" =>
                    /\ tasks[i].state = "Sleeping"
                    /\ tasks[i].next_activation > tick_us

\* a dispatch of the catch-up advances next_activation by one period
DrainDispatch ==
    (drain.on /\ TickSome) =>
        tasks'[last'.ret].next_activation =
            tasks[last'.ret].next_activation + tasks[last'.ret].period_us

\* C26: catch-up always drains: if every registered task has period_us > 0
\* and a priority below IDLE and no register, suspend or resume occurs, then
\* repeating tick(0) eventually returns None, having dispatched each task
\* once per period it was behind, each dispatch advancing next_activation by
\* exactly one period, after which every task that is not suspended is
\* Sleeping with next_activation > tick_us.
C26_CatchUpDrains ==
    /\ (drain.on /\ AllPeriodic) ~> Drained
    /\ [][DrainDispatch]_vars

\* a catch-up has drained a task that was three periods behind while
\* another one was suspended
C26_Witness ==
    /\ Drained
    /\ AllPeriodic
    /\ \E i \in Registered : Behind(drain.tasks0[i], tick_us) >= 3
    /\ \E i \in Registered : tasks[i].state = "Suspended"

====
